---- MODULE Spec2Model ----
(***************************************************************************)
(* A model of autosub/api_google.py: the encoding mapper, the two response *)
(* normalizers and the three transcription clients (GoogleSpeechV2,        *)
(* gcsv1p1beta1_service_client, GCSV1P1Beta1URL).                          *)
(*                                                                         *)
(* Abstractions.                                                           *)
(*  - A text is a sequence of characters drawn from Chars; "rsq" stands    *)
(*    for U+2019 and "apos" for the ASCII apostrophe.                      *)
(*  - A parsed JSON value is a record [shape, transcript, confKind, conf]. *)
(*    `shape` says how far the path result[0].alternative[0].transcript    *)
(*    (V2) or results[0].alternatives[0].transcript (V1P1Beta1) exists in  *)
(*    the value; the key names are those of the normalizer reading it.     *)
(*  - Confidences are percentages (90 stands for 0.9).                     *)
(*  - A response body is a sequence of atoms: the newline LF, bytes that   *)
(*    are no UTF-8 (BadBytes), or the text of one JSON value.              *)
(*  - An extension is a sequence of tokens; ".FLAC" lower-cases to ".flac".*)
(***************************************************************************)
EXTENDS Integers, Sequences, FiniteSets, TLC

VARIABLES
    client,          \* "V2" | "SVC" | "URL": which client is called
    retries,         \* self.retries
    is_keep,         \* self.is_keep / is_keep
    is_full_result,  \* self.is_full_result / is_full_result
    min_confidence,  \* self.min_confidence / min_confidence
    pc,              \* position of the call in its code
    fileExists,      \* the file named by `filename` is on disk
    handle,          \* audio_file: "none" | "open" | "closed"
    dataRead,        \* audio_data has been read
    deleted,         \* os.remove(filename) has succeeded
    attempt,         \* iterations of `for _ in range(retries)` started
    requests,        \* requests handed to the transport so far
    attemptLog,      \* what the transport answered to each request
    content,         \* result.content of the response being handled
    lines,           \* result_list (V2)
    lineIdx,         \* index of `line` in result_list (V2)
    parsed,          \* line_dict / result_dict last parsed
    outcome,         \* how the call ended
    interrupted,     \* a KeyboardInterrupt was delivered
    fnArgs,          \* arguments of a direct call of a pure function
    fnRes            \* its result

vars == << client, retries, is_keep, is_full_result, min_confidence, pc,
           fileExists, handle, dataRead, deleted, attempt, requests,
           attemptLog, content, lines, lineIdx, parsed, outcome,
           interrupted, fnArgs, fnRes >>

clientVars == << client, retries, is_keep, is_full_result, min_confidence, pc,
                 fileExists, handle, dataRead, deleted, attempt, requests,
                 attemptLog, content, lines, lineIdx, parsed, outcome,
                 interrupted >>

----------------------------------------------------------------------------
(* Bounds *)

MaxRetries == 3
MaxLines == 2
MaxTextLen == 2
MaxExtLen == 2

----------------------------------------------------------------------------
(* Texts *)

Chars == {"a", "A", "rsq", "apos"}

SeqsUpTo(S, n) == UNION {[1..k -> S] : k \in 0..n}

\* str.upper() of one character
Upper(c) == IF c = "a" THEN "A" ELSE c

\* text[:1].upper() + text[1:]
UpperFirst(text) ==
    IF text = <<>> THEN <<>> ELSE <<Upper(text[1])>> \o Tail(text)

\* result.replace(U+2019, "'")
ReplaceQuote(text) ==
    [i \in 1..Len(text) |-> IF text[i] = "rsq" THEN "apos" ELSE text[i]]

----------------------------------------------------------------------------
(* Parsed JSON values *)

Shapes == {"nonobj",        \* null, a number: no container at all
           "emptyobj",      \* {}
           "otherobj",      \* a non-empty object without the top-level key
           "emptyresults",  \* {"result": []}
           "noalt",         \* {"result": [{}]}
           "emptyalt",      \* {"result": [{"alternative": []}]}
           "notranscript",  \* {"result": [{"alternative": [{"confidence": c}]}]}
           "alt"}           \* {"result": [{"alternative": [{"transcript": t ...}]}]}

Json(shape, transcript, confKind, conf) ==
    [shape |-> shape, transcript |-> transcript, confKind |-> confKind, conf |-> conf]

NoJson == Json("none", <<>>, "absent", 0)

\* `key in d` on something that is no container raises TypeError
IsContainer(d) == d.shape # "nonobj"
\* 'result' in result_dict
HasResultKey(d) == d.shape \in {"emptyresults", "noalt", "emptyalt", "notranscript", "alt"}
\* result_dict['result']
ResultTruthy(d) == d.shape \in {"noalt", "emptyalt", "notranscript", "alt"}
\* 'alternative' in result_dict['result'][0]
HasAlternativeKey(d) == d.shape \in {"emptyalt", "notranscript", "alt"}
\* result_dict['result'][0]['alternative']
AlternativeTruthy(d) == d.shape \in {"notranscript", "alt"}
\* 'transcript' in result_dict['result'][0]['alternative'][0]
HasTranscript(d) == d.shape = "alt"
\* 'confidence' in result_dict['result'][0]['alternative'][0]
HasConfidence(d) == d.confKind # "absent"
\* bool(result_dict)
DictTruthy(d) == d.shape # "emptyobj"

(* Results of a function: a value, None, or an exception *)
Ret(kind, exc, text, obj) == [kind |-> kind, exc |-> exc, text |-> text, obj |-> obj]
RetNone == Ret("none", "", <<>>, NoJson)
RetText(t) == Ret("text", "", t, NoJson)
RetObj(o) == Ret("obj", "", <<>>, o)
Raise(e, o) == Ret("raise", e, <<>>, o)
Pending == Ret("pending", "", <<>>, NoJson)

\* The V2 normalizer, reading result[0].alternative[0]
get_google_speech_v2_transcript(min_conf, result_dict) ==
    IF ~IsContainer(result_dict) THEN Raise("TypeError", NoJson)
    ELSE IF /\ HasResultKey(result_dict) /\ ResultTruthy(result_dict)
            /\ HasAlternativeKey(result_dict) /\ AlternativeTruthy(result_dict)
            /\ HasTranscript(result_dict)
         THEN IF HasConfidence(result_dict)
              THEN IF result_dict.confKind = "text"
                   THEN Raise("ValueError", NoJson)      \* float("abc")
                   ELSE IF result_dict.conf > min_conf
                        THEN RetText(ReplaceQuote(UpperFirst(result_dict.transcript)))
                        ELSE RetNone
              ELSE RetText(ReplaceQuote(UpperFirst(result_dict.transcript)))
         ELSE RetNone

\* A variant of the V1P1Beta1 normalizer whose gate is >= instead of >
MutV1GateNotStrict(min_conf, result_dict) ==
    IF ~IsContainer(result_dict) THEN Raise("TypeError", NoJson)
    ELSE IF HasTranscript(result_dict)
         THEN IF HasConfidence(result_dict)
              THEN IF result_dict.confKind = "text"
                   THEN Raise("ValueError", NoJson)
                   ELSE IF result_dict.conf >= min_conf
                        THEN RetText(ReplaceQuote(UpperFirst(result_dict.transcript)))
                        ELSE RetNone
              ELSE RetText(ReplaceQuote(UpperFirst(result_dict.transcript)))
         ELSE IF ~DictTruthy(result_dict)
              THEN RetNone
              ELSE Raise("SpeechToTextException", result_dict)

\* The V1P1Beta1 normalizer, reading results[0].alternatives[0]
get_gcsv1p1beta1_transcript(min_conf, result_dict) ==
    IF ~IsContainer(result_dict) THEN Raise("TypeError", NoJson)
    ELSE IF /\ HasResultKey(result_dict) /\ ResultTruthy(result_dict)
            /\ HasAlternativeKey(result_dict) /\ AlternativeTruthy(result_dict)
            /\ HasTranscript(result_dict)
         THEN IF ~HasTranscript(result_dict)
              THEN RetNone                                \* line 156
              ELSE IF HasConfidence(result_dict)
                   THEN IF result_dict.confKind = "text"
                        THEN Raise("ValueError", NoJson)  \* float("abc")
                        ELSE IF result_dict.conf > min_conf
                             THEN RetText(ReplaceQuote(UpperFirst(result_dict.transcript)))
                             ELSE RetNone
                   ELSE RetText(ReplaceQuote(UpperFirst(result_dict.transcript)))
         ELSE IF ~DictTruthy(result_dict)
              THEN RetNone
              ELSE Raise("SpeechToTextException", result_dict)

----------------------------------------------------------------------------
(* The encoding mapper *)

ExtTokens == {".flac", ".FLAC", ".Mp3", ".wav", ".pcm", ".ogg", ".txt", "x"}

\* str.lower() of one token
LowerToken(t) ==
    CASE t = ".FLAC" -> ".flac"
      [] t = ".Mp3" -> ".mp3"
      [] OTHER -> t

\* extension.lower()
Lower(extension) == [i \in 1..Len(extension) |-> LowerToken(extension[i])]

\* ext.endswith(suffix)
EndsWith(ext, suffix) == Len(ext) > 0 /\ ext[Len(ext)] = suffix

EncValue(v) == [kind |-> "value", exc |-> "", enc |-> v]
EncRaise(e) == [kind |-> "raise", exc |-> e, enc |-> ""]
EncPending == [kind |-> "pending", exc |-> "", enc |-> ""]

\* enums.RecognitionConfig.AudioEncoding.<member>: the module imports no
\* `enums` when constants.IS_GOOGLECLOUDCLIENT holds (line 21 is a comment)
\* and binds it to None otherwise (line 25)
EnumsMember(is_googlecloudclient, member) ==
    IF is_googlecloudclient
    THEN EncRaise("NameError")
    ELSE EncRaise("AttributeError")

google_ext_to_enc(extension, is_string, is_googlecloudclient) ==
    LET ext == Lower(extension) IN
    IF is_string
    THEN IF EndsWith(ext, ".flac") THEN EncValue("FLAC")
         ELSE IF EndsWith(ext, ".mp3") THEN EncValue("MP3")
         ELSE IF EndsWith(ext, ".wav") \/ EndsWith(ext, ".pcm") THEN EncValue("LINEAR16")
         ELSE IF EndsWith(ext, ".ogg") THEN EncValue("OGG_OPUS")
         ELSE EncValue("")
    ELSE IF EndsWith(ext, ".flac") THEN EnumsMember(is_googlecloudclient, "FLAC")
         ELSE IF EndsWith(ext, ".mp3") THEN EnumsMember(is_googlecloudclient, "MP3")
         ELSE IF EndsWith(ext, ".wav") \/ EndsWith(Lower(extension), ".pcm")
              THEN EnumsMember(is_googlecloudclient, "LINEAR16")
         ELSE IF EndsWith(ext, ".ogg") THEN EnumsMember(is_googlecloudclient, "OGG_OPUS")
         ELSE EnumsMember(is_googlecloudclient, "ENCODING_UNSPECIFIED")

----------------------------------------------------------------------------
(* Response bodies *)

LF == Json("LF", <<>>, "absent", 0)            \* "\n"
BadBytes == Json("badutf8", <<>>, "absent", 0) \* bytes that are no UTF-8

\* result.content.decode('utf-8') succeeds
Decodable(c) == \A i \in 1..Len(c) : c[i].shape # "badutf8"

\* str.split("\n"): one more chunk than there are newlines
RECURSIVE SplitFrom(_, _, _)
SplitFrom(c, i, chunk) ==
    IF i > Len(c) THEN <<chunk>>
    ELSE IF c[i] = LF THEN <<chunk>> \o SplitFrom(c, i + 1, <<>>)
    ELSE SplitFrom(c, i + 1, Append(chunk, c[i]))

Split(c) == SplitFrom(c, 1, <<>>)

\* json.loads of a text without newlines: one JSON value, or ValueError
json_loads(chunk) ==
    IF Len(chunk) = 1 /\ chunk[1].shape \in Shapes
    THEN RetObj(chunk[1])
    ELSE Raise("ValueError", NoJson)

\* json.loads of a whole body: newlines are white space
json_loads_body(c) == json_loads(SelectSeq(c, LAMBDA a : a # LF))

\* the lines a body is made of, joined by newlines
RECURSIVE Join(_)
Join(ls) ==
    IF Len(ls) = 0 THEN <<>>
    ELSE IF Len(ls) = 1 THEN ls[1]
    ELSE ls[1] \o <<LF>> \o Join(Tail(ls))

----------------------------------------------------------------------------
(* What the environment can hand to a call *)

MinConfs == {0, 50}

JNonObj == Json("nonobj", <<>>, "absent", 0)
JEmpty == Json("emptyobj", <<>>, "absent", 0)
JOther == Json("otherobj", <<>>, "absent", 0)
JNoTranscript == Json("notranscript", <<>>, "number", 90)
JBlank == Json("alt", <<>>, "absent", 0)
JHigh == Json("alt", <<"a">>, "number", 90)
JLow == Json("alt", <<"a", "rsq">>, "number", 50)
JBadConf == Json("alt", <<"a">>, "text", 0)

\* the JSON values a response may carry
ClientJsons == {JNonObj, JEmpty, JOther, JNoTranscript,
                JBlank, JHigh, JLow, JBadConf}

\* the lines of a body: the empty line (no JSON), bytes that do not decode,
\* the text of one JSON value
BodyLines == {<<>>, <<BadBytes>>} \cup {<<j>> : j \in ClientJsons}

\* the bodies a transport may answer with
Contents == {Join(ls) : ls \in UNION {[1..k -> BodyLines] : k \in 1..MaxLines}}

\* what MessageToDict can return: always a mapping
SvcJsons == ClientJsons \ {JNonObj}

----------------------------------------------------------------------------
(* The three clients *)

Init ==
    /\ client \in {"V2", "SVC", "URL"}
    /\ retries \in 1..MaxRetries
    /\ is_keep \in BOOLEAN
    /\ is_full_result \in BOOLEAN
    /\ min_confidence \in MinConfs
    /\ pc = "open"
    /\ fileExists \in BOOLEAN
    /\ handle = "none"
    /\ dataRead = FALSE
    /\ deleted = FALSE
    /\ attempt = 0
    /\ requests = 0
    /\ attemptLog = <<>>
    /\ content = <<>>
    /\ lines = <<>>
    /\ lineIdx = 0
    /\ parsed = NoJson
    /\ outcome = Pending
    /\ interrupted = FALSE
    /\ fnArgs = [fn |-> "none"]
    /\ fnRes = Pending

\* the call ends: a return value or an exception leaving it
Finish(r) ==
    /\ outcome' = r
    /\ pc' = "done"

\* open(filename, mode='rb') succeeds
OpenFile ==
    /\ pc = "open"
    /\ fileExists
    /\ handle' = "open"
    /\ pc' = "read"
    /\ UNCHANGED << client, retries, is_keep, is_full_result, min_confidence,
                    fileExists, dataRead, deleted, attempt, requests, attemptLog,
                    content, lines, lineIdx, parsed, outcome, interrupted,
                    fnArgs, fnRes >>

\* open(filename, mode='rb') raises OSError (no such file, no permission)
OpenFails ==
    /\ pc = "open"
    /\ Finish(Raise("OSError", NoJson))
    /\ UNCHANGED << client, retries, is_keep, is_full_result, min_confidence,
                    fileExists, handle, dataRead, deleted, attempt, requests,
                    attemptLog, content, lines, lineIdx, parsed, interrupted,
                    fnArgs, fnRes >>

\* audio_file.read()
ReadFile ==
    /\ pc = "read"
    /\ dataRead' = TRUE
    /\ pc' = "close"
    /\ UNCHANGED << client, retries, is_keep, is_full_result, min_confidence,
                    fileExists, handle, deleted, attempt, requests, attemptLog,
                    content, lines, lineIdx, parsed, outcome, interrupted,
                    fnArgs, fnRes >>

\* A variant of CloseFile that leaves the handle open
MutCloseFileLeak ==
    /\ pc = "close"
    /\ pc' = "remove"
    /\ UNCHANGED << client, retries, is_keep, is_full_result, min_confidence,
                    fileExists, handle, dataRead, deleted, attempt, requests,
                    attemptLog, content, lines, lineIdx, parsed, outcome,
                    interrupted, fnArgs, fnRes >>

\* audio_file.close()
CloseFile ==
    /\ pc = "close"
    /\ handle' = "closed"
    /\ pc' = "remove"
    /\ UNCHANGED << client, retries, is_keep, is_full_result, min_confidence,
                    fileExists, dataRead, deleted, attempt, requests, attemptLog,
                    content, lines, lineIdx, parsed, outcome, interrupted,
                    fnArgs, fnRes >>

\* where the call goes once the file is dealt with
AfterFile == IF client = "SVC" THEN "recognize" ELSE "loop"

\* if not is_keep: os.remove(filename)
RemoveFile ==
    /\ pc = "remove"
    /\ IF ~is_keep
       THEN deleted' = TRUE /\ fileExists' = FALSE
       ELSE UNCHANGED << deleted, fileExists >>
    /\ pc' = AfterFile
    /\ UNCHANGED << client, retries, is_keep, is_full_result, min_confidence,
                    handle, dataRead, attempt, requests, attemptLog, content,
                    lines, lineIdx, parsed, outcome, interrupted, fnArgs, fnRes >>

\* os.remove(filename) raises OSError
RemoveFails ==
    /\ pc = "remove"
    /\ ~is_keep
    /\ Finish(Raise("OSError", NoJson))
    /\ UNCHANGED << client, retries, is_keep, is_full_result, min_confidence,
                    fileExists, handle, dataRead, deleted, attempt, requests,
                    attemptLog, content, lines, lineIdx, parsed, interrupted,
                    fnArgs, fnRes >>

\* one more iteration of `for _ in range(self.retries)` hands one request to
\* requests.post, which answers `answer`
Post(answer) ==
    /\ pc = "loop"
    /\ attempt < retries
    /\ attempt' = attempt + 1
    /\ requests' = requests + 1
    /\ attemptLog' = Append(attemptLog, answer)

\* requests.post raises requests.exceptions.ConnectionError: continue
PostConnectionError ==
    /\ Post("ConnectionError")
    /\ pc' = "loop"
    /\ UNCHANGED << client, retries, is_keep, is_full_result, min_confidence,
                    fileExists, handle, dataRead, deleted, content, lines,
                    lineIdx, parsed, outcome, interrupted, fnArgs, fnRes >>

\* requests.post raises another requests exception (a read timeout, too many
\* redirects, an invalid URL): nothing catches it
PostOtherError ==
    /\ Post("RequestException")
    /\ Finish(Raise("RequestException", NoJson))
    /\ UNCHANGED << client, retries, is_keep, is_full_result, min_confidence,
                    fileExists, handle, dataRead, deleted, content, lines,
                    lineIdx, parsed, interrupted, fnArgs, fnRes >>

\* requests.post returns a response
PostResponse ==
    /\ Post("response")
    /\ \E c \in Contents : content' = c
    /\ pc' = "decode"
    /\ UNCHANGED << client, retries, is_keep, is_full_result, min_confidence,
                    fileExists, handle, dataRead, deleted, lines, lineIdx,
                    parsed, outcome, interrupted, fnArgs, fnRes >>

\* the loop ran `retries` times: the `return None` after the try statement
LoopExhausted ==
    /\ pc = "loop"
    /\ attempt >= retries
    /\ Finish(RetNone)
    /\ UNCHANGED << client, retries, is_keep, is_full_result, min_confidence,
                    fileExists, handle, dataRead, deleted, attempt, requests,
                    attemptLog, content, lines, lineIdx, parsed, interrupted,
                    fnArgs, fnRes >>

\* result.content.decode('utf-8').split("\n") in the V2 client
V2Decode ==
    /\ pc = "decode"
    /\ client = "V2"
    /\ IF Decodable(content)
       THEN /\ lines' = Split(content)
            /\ lineIdx' = 1
            /\ pc' = "line"
            /\ UNCHANGED outcome
       ELSE /\ Finish(Raise("UnicodeDecodeError", NoJson))
            /\ UNCHANGED << lines, lineIdx >>
    /\ UNCHANGED << client, retries, is_keep, is_full_result, min_confidence,
                    fileExists, handle, dataRead, deleted, attempt, requests,
                    attemptLog, content, parsed, interrupted, fnArgs, fnRes >>

\* `if transcript:` on what the normalizer returned
Truthy(r) == r.kind = "text" /\ r.text # <<>>

\* A variant of V2Line that takes any transcript that is not None
MutV2LineNotNone ==
    /\ pc = "line"
    /\ lineIdx <= Len(lines)
    /\ LET loaded == json_loads(lines[lineIdx])
           transcript == get_google_speech_v2_transcript(min_confidence, loaded.obj)
       IN  IF loaded.kind = "raise"
           THEN /\ lineIdx' = lineIdx + 1
                /\ UNCHANGED << parsed, outcome, pc >>
           ELSE /\ parsed' = loaded.obj
                /\ IF transcript.kind = "raise"
                   THEN IF transcript.exc \in {"ValueError", "IndexError"}
                        THEN lineIdx' = lineIdx + 1 /\ UNCHANGED << outcome, pc >>
                        ELSE Finish(transcript) /\ UNCHANGED lineIdx
                   ELSE IF transcript.kind = "text"
                        THEN /\ Finish(IF ~is_full_result
                                       THEN RetText(transcript.text)
                                       ELSE RetObj(loaded.obj))
                             /\ UNCHANGED lineIdx
                        ELSE lineIdx' = lineIdx + 1 /\ UNCHANGED << outcome, pc >>
    /\ UNCHANGED << client, retries, is_keep, is_full_result, min_confidence,
                    fileExists, handle, dataRead, deleted, attempt, requests,
                    attemptLog, content, lines, interrupted, fnArgs, fnRes >>

\* one iteration of `for line in result_list` in the V2 client
V2Line ==
    /\ pc = "line"
    /\ lineIdx <= Len(lines)
    /\ LET loaded == json_loads(lines[lineIdx])
           transcript == get_google_speech_v2_transcript(min_confidence, loaded.obj)
       IN  IF loaded.kind = "raise"
           THEN \* json.loads raised ValueError: continue
                /\ lineIdx' = lineIdx + 1
                /\ UNCHANGED << parsed, outcome, pc >>
           ELSE /\ parsed' = loaded.obj
                /\ IF transcript.kind = "raise"
                   THEN IF transcript.exc \in {"ValueError", "IndexError"}
                        THEN lineIdx' = lineIdx + 1 /\ UNCHANGED << outcome, pc >>
                        ELSE Finish(transcript) /\ UNCHANGED lineIdx
                   ELSE IF Truthy(transcript)
                        THEN /\ Finish(IF ~is_full_result
                                       THEN RetText(transcript.text)
                                       ELSE RetObj(loaded.obj))
                             /\ UNCHANGED lineIdx
                        ELSE lineIdx' = lineIdx + 1 /\ UNCHANGED << outcome, pc >>
    /\ UNCHANGED << client, retries, is_keep, is_full_result, min_confidence,
                    fileExists, handle, dataRead, deleted, attempt, requests,
                    attemptLog, content, lines, interrupted, fnArgs, fnRes >>

\* the lines of the body are used up: `return None` inside the retry loop
V2LinesExhausted ==
    /\ pc = "line"
    /\ lineIdx > Len(lines)
    /\ Finish(RetNone)
    /\ UNCHANGED << client, retries, is_keep, is_full_result, min_confidence,
                    fileExists, handle, dataRead, deleted, attempt, requests,
                    attemptLog, content, lines, lineIdx, parsed, interrupted,
                    fnArgs, fnRes >>

\* requests_result.content.decode('utf-8') and json.loads in the raw-HTTP
\* client; a body that is no JSON sends the call to the next iteration, where
\* nothing reads the old response any more
URLDecode ==
    /\ pc = "decode"
    /\ client = "URL"
    /\ IF ~Decodable(content)
       THEN Finish(Raise("UnicodeDecodeError", NoJson)) /\ UNCHANGED << parsed, content >>
       ELSE LET loaded == json_loads_body(content)
            IN  IF loaded.kind = "raise"
                THEN pc' = "loop" /\ content' = <<>> /\ UNCHANGED << parsed, outcome >>
                ELSE parsed' = loaded.obj /\ pc' = "result" /\ UNCHANGED << outcome, content >>
    /\ UNCHANGED << client, retries, is_keep, is_full_result, min_confidence,
                    fileExists, handle, dataRead, deleted, attempt, requests,
                    attemptLog, lines, lineIdx, interrupted, fnArgs, fnRes >>

\* what both V1P1Beta1 clients return for result_dict
ReturnOf(full, min_conf, result_dict) ==
    IF ~full
    THEN get_gcsv1p1beta1_transcript(min_conf, result_dict)
    ELSE RetObj(result_dict)

\* A variant of URLReturn that normalizes in full-result mode too
MutURLReturnNormalizes ==
    /\ pc = "result"
    /\ client = "URL"
    /\ Finish(ReturnOf(FALSE, min_confidence, parsed))
    /\ UNCHANGED << client, retries, is_keep, is_full_result, min_confidence,
                    fileExists, handle, dataRead, deleted, attempt, requests,
                    attemptLog, content, lines, lineIdx, parsed, interrupted,
                    fnArgs, fnRes >>

\* the two returns that end an iteration of the raw-HTTP client
URLReturn ==
    /\ pc = "result"
    /\ client = "URL"
    /\ Finish(ReturnOf(is_full_result, min_confidence, parsed))
    /\ UNCHANGED << client, retries, is_keep, is_full_result, min_confidence,
                    fileExists, handle, dataRead, deleted, attempt, requests,
                    attemptLog, content, lines, lineIdx, parsed, interrupted,
                    fnArgs, fnRes >>

\* SpeechClient().recognize(config, audio_dict) answers and MessageToDict
\* turns the answer into result_dict
Recognize ==
    /\ pc = "recognize"
    /\ requests' = requests + 1
    /\ attemptLog' = Append(attemptLog, "response")
    /\ \E d \in SvcJsons : parsed' = d
    /\ pc' = "result"
    /\ UNCHANGED << client, retries, is_keep, is_full_result, min_confidence,
                    fileExists, handle, dataRead, deleted, attempt, content,
                    lines, lineIdx, outcome, interrupted, fnArgs, fnRes >>

\* SpeechClient() or recognize raises: nothing catches it
RecognizeFails ==
    /\ pc = "recognize"
    /\ requests' = requests + 1
    /\ attemptLog' = Append(attemptLog, "RecognizeError")
    /\ Finish(Raise("RecognizeError", NoJson))
    /\ UNCHANGED << client, retries, is_keep, is_full_result, min_confidence,
                    fileExists, handle, dataRead, deleted, attempt, content,
                    lines, lineIdx, parsed, interrupted, fnArgs, fnRes >>

\* the two returns of the SDK client
SVCReturn ==
    /\ pc = "result"
    /\ client = "SVC"
    /\ Finish(ReturnOf(is_full_result, min_confidence, parsed))
    /\ UNCHANGED << client, retries, is_keep, is_full_result, min_confidence,
                    fileExists, handle, dataRead, deleted, attempt, requests,
                    attemptLog, content, lines, lineIdx, parsed, interrupted,
                    fnArgs, fnRes >>

\* A variant of Interrupt that lets the KeyboardInterrupt leave the call
MutInterruptPropagates ==
    /\ pc # "done"
    /\ interrupted' = TRUE
    /\ Finish(Raise("KeyboardInterrupt", NoJson))
    /\ UNCHANGED << client, retries, is_keep, is_full_result, min_confidence,
                    fileExists, handle, dataRead, deleted, attempt, requests,
                    attemptLog, content, lines, lineIdx, parsed, fnArgs, fnRes >>

\* a KeyboardInterrupt is delivered inside the try statement:
\* `except KeyboardInterrupt: return None`
Interrupt ==
    /\ pc # "done"
    /\ interrupted' = TRUE
    /\ Finish(RetNone)
    /\ UNCHANGED << client, retries, is_keep, is_full_result, min_confidence,
                    fileExists, handle, dataRead, deleted, attempt, requests,
                    attemptLog, content, lines, lineIdx, parsed, fnArgs, fnRes >>

Next ==
    \/ OpenFile
    \/ OpenFails
    \/ ReadFile
    \/ CloseFile
    \/ RemoveFile
    \/ RemoveFails
    \/ PostConnectionError
    \/ PostOtherError
    \/ PostResponse
    \/ LoopExhausted
    \/ V2Decode
    \/ V2Line
    \/ V2LinesExhausted
    \/ URLDecode
    \/ URLReturn
    \/ Recognize
    \/ RecognizeFails
    \/ SVCReturn
    \/ Interrupt

Spec == Init /\ [][Next]_vars

----------------------------------------------------------------------------
(* Direct calls of the normalizers *)

NormMinConfs == {0, 50, 95}
NormConfs == {0, 50, 90}

\* the parsed values a normalizer may be given
NormJsons ==
    {Json(s, <<>>, "absent", 0) : s \in Shapes \ {"alt"}}
    \cup {Json("notranscript", <<>>, "number", c) : c \in NormConfs}
    \cup {Json("alt", t, "absent", 0) : t \in SeqsUpTo(Chars, MaxTextLen)}
    \cup {Json("alt", t, "text", 0) : t \in SeqsUpTo(Chars, MaxTextLen)}
    \cup {Json("alt", t, "number", c) : t \in SeqsUpTo(Chars, MaxTextLen), c \in NormConfs}

\* no client call is going on
NoCall ==
    /\ client = "none"
    /\ retries = 0
    /\ is_keep = FALSE
    /\ is_full_result = FALSE
    /\ min_confidence = 0
    /\ pc = "fn"
    /\ fileExists = FALSE
    /\ handle = "none"
    /\ dataRead = FALSE
    /\ deleted = FALSE
    /\ attempt = 0
    /\ requests = 0
    /\ attemptLog = <<>>
    /\ content = <<>>
    /\ lines = <<>>
    /\ lineIdx = 0
    /\ parsed = NoJson
    /\ outcome = Pending
    /\ interrupted = FALSE

InitNorm ==
    /\ NoCall
    /\ fnArgs \in [fn : {"v2", "v1"}, min_conf : NormMinConfs, d : NormJsons]
    /\ fnRes = Pending

CallV2Normalizer ==
    /\ fnArgs.fn = "v2"
    /\ fnRes = Pending
    /\ fnRes' = get_google_speech_v2_transcript(fnArgs.min_conf, fnArgs.d)
    /\ UNCHANGED << clientVars, fnArgs >>

CallV1Normalizer ==
    /\ fnArgs.fn = "v1"
    /\ fnRes = Pending
    /\ fnRes' = get_gcsv1p1beta1_transcript(fnArgs.min_conf, fnArgs.d)
    /\ UNCHANGED << clientVars, fnArgs >>

NextNorm ==
    \/ CallV2Normalizer
    \/ CallV1Normalizer

SpecNorm == InitNorm /\ [][NextNorm]_vars

----------------------------------------------------------------------------
(* Direct calls of the encoding mapper *)

InitEnc ==
    /\ NoCall
    /\ fnArgs \in [extension : SeqsUpTo(ExtTokens, MaxExtLen),
                   is_string : BOOLEAN,
                   is_googlecloudclient : BOOLEAN]
    /\ fnRes = EncPending

CallExtToEnc ==
    /\ fnRes = EncPending
    /\ fnRes' = google_ext_to_enc(fnArgs.extension, fnArgs.is_string,
                                  fnArgs.is_googlecloudclient)
    /\ UNCHANGED << clientVars, fnArgs >>

NextEnc == CallExtToEnc

SpecEnc == InitEnc /\ [][NextEnc]_vars

----------------------------------------------------------------------------
(* Vocabulary of the properties *)

Done == pc = "done"

\* the first k requests of the call met a connection failure
AllConnectionErrors(k) ==
    /\ k <= Len(attemptLog)
    /\ \A i \in 1..k : attemptLog[i] = "ConnectionError"

\* the last request of the call was answered by a response
LastIsResponse ==
    /\ Len(attemptLog) >= 1
    /\ attemptLog[Len(attemptLog)] = "response"

\* what the V2 normalizer makes of one line of a body
V2LineResult(min_conf, line) ==
    IF json_loads(line).kind = "raise"
    THEN json_loads(line)
    ELSE get_google_speech_v2_transcript(min_conf, json_loads(line).obj)

\* the lines of body c on which the V2 normalizer yields a result that is not None
NotNoneLines(min_conf, c) ==
    IF Decodable(c)
    THEN {i \in 1..Len(Split(c)) : V2LineResult(min_conf, Split(c)[i]).kind = "text"}
    ELSE {}

\* the lines of body c on which the V2 normalizer yields a non-empty transcript
NonEmptyLines(min_conf, c) ==
    {i \in NotNoneLines(min_conf, c) : V2LineResult(min_conf, Split(c)[i]).text # <<>>}

Earliest(S) == CHOOSE i \in S : \A j \in S : i <= j

\* body c carries a qualifying transcript for client cl: a non-empty transcript
\* that passes the confidence gate
Carries(cl, min_conf, c) ==
    IF cl = "V2"
    THEN NonEmptyLines(min_conf, c) # {}
    ELSE /\ Decodable(c)
         /\ json_loads_body(c).kind = "obj"
         /\ get_gcsv1p1beta1_transcript(min_conf, json_loads_body(c).obj).kind = "text"
         /\ get_gcsv1p1beta1_transcript(min_conf, json_loads_body(c).obj).text # <<>>

CarriedTranscript(cl, min_conf, c) ==
    IF cl = "V2"
    THEN V2LineResult(min_conf, Split(c)[Earliest(NonEmptyLines(min_conf, c))]).text
    ELSE get_gcsv1p1beta1_transcript(min_conf, json_loads_body(c).obj).text

\* character i of a post-processed transcript, given character ch of the text
ExpectedChar(i, ch) ==
    IF i = 1 /\ ch = "a" THEN "A"
    ELSE IF ch = "rsq" THEN "apos"
    ELSE ch

\* out is text with only its first character upper-cased and every U+2019
\* replaced by an apostrophe
IsPostProcessed(out, text) ==
    /\ Len(out) = Len(text)
    /\ \A i \in 1..Len(text) : out[i] = ExpectedChar(i, text[i])

\* no suffix the mapper knows ends the extension, whatever its case
Unrecognized(extension) ==
    \/ Len(extension) = 0
    \/ LowerToken(extension[Len(extension)]) \notin {".flac", ".mp3", ".wav", ".pcm", ".ogg"}

----------------------------------------------------------------------------
(* Properties *)

\* C1: the V2 and raw-HTTP clients send one request per attempt and at most
\* `retries` in all; when every attempt met a connection failure the call
\* returns None; when the first k < retries attempts met a connection failure
\* and the next one received a response carrying a qualifying transcript, the
\* call (in transcript mode, not interrupted) returns that transcript.
C1_RetryContract ==
    client \in {"V2", "URL"} =>
        /\ requests = attempt
        /\ requests <= retries
        /\ (Done /\ ~interrupted /\ AllConnectionErrors(retries))
               => outcome = RetNone
        /\ (/\ Done /\ ~interrupted /\ ~is_full_result
            /\ LastIsResponse
            /\ AllConnectionErrors(Len(attemptLog) - 1)
            /\ Carries(client, min_confidence, content))
               => outcome = RetText(CarriedTranscript(client, min_confidence, content))

\* C2: the only exception that leaves a call of a client is the
\* SpeechToTextException carrying the response; every other failure ends
\* with the call returning None.
C2_OnlyMalformedEscapes ==
    (Done /\ outcome.kind = "raise") =>
        /\ outcome.exc = "SpeechToTextException"
        /\ outcome.obj = parsed

\* C3: open, read, close, delete (unless the file is kept) all come before
\* the first request: once a request was issued the handle is closed and the
\* file is deleted unless kept; a kept file is never deleted.
C3_FileBeforeNetwork ==
    /\ requests > 0 => /\ handle = "closed"
                       /\ dataRead
                       /\ (~is_keep => deleted /\ ~fileExists)
    /\ deleted => handle = "closed"
    /\ handle = "closed" => dataRead
    /\ dataRead => handle # "none"
    /\ is_keep => ~deleted

\* a request met a connection failure after the file was deleted
C3_Witness ==
    /\ ~is_keep
    /\ deleted
    /\ requests > 1
    /\ attemptLog[1] = "ConnectionError"

\* C4: a KeyboardInterrupt delivered at any step ends the call with None; it
\* does not leave the call and no request is sent after it.
C4_InterruptReturnsNone ==
    /\ [](interrupted => Done /\ outcome = RetNone)
    /\ [][interrupted => requests' = requests]_vars

\* an interrupt arrived while a response was being handled
C4_Witness ==
    /\ interrupted
    /\ Done
    /\ LastIsResponse
    /\ outcome = RetNone

\* C5: in the V2 client a request follows only a connection failure, and a
\* received response (a body of UTF-8 text) none of whose lines yields a
\* transcript ends the call with None.
C5_NoRetryAfterResponse ==
    client = "V2" =>
        /\ \A i \in 1..(Len(attemptLog) - 1) : attemptLog[i] = "ConnectionError"
        /\ (/\ Done /\ ~interrupted
            /\ LastIsResponse
            /\ Decodable(content)
            /\ ~Carries("V2", min_confidence, content))
               => outcome = RetNone

\* C6 as stated: the transcript the V2 client returns is the normalizer's
\* result on the earliest line whose result is not None, and that line is the
\* last one examined.
C6_FirstNotNoneLine ==
    (client = "V2" /\ Done /\ outcome.kind = "text") =>
        /\ NotNoneLines(min_confidence, content) # {}
        /\ lineIdx = Earliest(NotNoneLines(min_confidence, content))
        /\ outcome.text = V2LineResult(min_confidence, lines[lineIdx]).text

\* C6 as amended: the transcript the V2 client returns is the normalizer's
\* result on the earliest line whose result is a non-empty transcript, and
\* that line is the last one examined; None is returned for a response only
\* when no line yields a non-empty transcript.
C6_FirstNonEmptyLine ==
    client = "V2" =>
        /\ (Done /\ outcome.kind = "text") =>
               /\ NonEmptyLines(min_confidence, content) # {}
               /\ lineIdx = Earliest(NonEmptyLines(min_confidence, content))
               /\ outcome.text = V2LineResult(min_confidence, lines[lineIdx]).text
        /\ (Done /\ ~interrupted /\ LastIsResponse /\ outcome = RetNone) =>
               NonEmptyLines(min_confidence, content) = {}

\* a line yielding the empty transcript was passed over for the next line
C6_Witness ==
    /\ client = "V2"
    /\ Done
    /\ outcome.kind = "text"
    /\ lineIdx = 2
    /\ lines[1] = <<JBlank>>

\* C7: both normalizers gate alike: with a numeric confidence the
\* post-processed transcript is returned exactly when confidence >
\* min_confidence, otherwise None; without a confidence it is always
\* returned; a returned transcript has its first character upper-cased and
\* every U+2019 replaced.
C7_ConfidenceGate ==
    (fnRes # Pending /\ fnArgs.d.shape = "alt" /\ fnArgs.d.confKind # "text") =>
        IF fnArgs.d.confKind = "number" /\ ~(fnArgs.d.conf > fnArgs.min_conf)
        THEN fnRes = RetNone
        ELSE /\ fnRes.kind = "text"
             /\ IsPostProcessed(fnRes.text, fnArgs.d.transcript)

\* the V1P1Beta1 normalizer met a confidence equal to the threshold
C7_Witness ==
    /\ fnArgs.fn = "v1"
    /\ fnArgs.d.shape = "alt"
    /\ fnArgs.d.confKind = "number"
    /\ fnArgs.d.conf = fnArgs.min_conf
    /\ fnArgs.d.transcript = <<"a", "rsq">>
    /\ fnRes = RetNone

\* C8: the V1P1Beta1 normalizer raises SpeechToTextException, carrying the
\* input, exactly when the input is non-empty and lacks the results or
\* alternatives; an empty input and an alternative without transcript both
\* give None.
C8_MalformedExactly ==
    (fnArgs.fn = "v1" /\ fnRes # Pending /\ fnArgs.d.shape # "nonobj") =>
        /\ (fnRes.kind = "raise" /\ fnRes.exc = "SpeechToTextException")
               <=> fnArgs.d.shape \in {"otherobj", "emptyresults", "noalt", "emptyalt"}
        /\ fnRes.exc = "SpeechToTextException" => fnRes.obj = fnArgs.d
        /\ fnArgs.d.shape = "emptyobj" => fnRes = RetNone
        /\ fnArgs.d.shape = "notranscript" => fnRes = RetNone

\* C9 as stated: in full-result mode a call that parsed a response returns
\* the parsed structure, whatever the normalizer makes of it.
C9_FullResultBypasses ==
    (/\ is_full_result /\ Done /\ ~interrupted
     /\ parsed # NoJson
     /\ outcome.kind # "raise")
        => outcome = RetObj(parsed)

\* C9 as amended: in full-result mode no call returns a transcript string;
\* the SDK and raw-HTTP clients return the parsed structure without running
\* the normalizer; the V2 client returns the parsed line of the earliest line
\* whose normalized transcript is non-empty, and None when there is none.
C9_FullResultPerClient ==
    (is_full_result /\ Done /\ ~interrupted) =>
        /\ outcome.kind # "text"
        /\ (client \in {"SVC", "URL"} /\ parsed # NoJson) => outcome = RetObj(parsed)
        /\ client = "V2" =>
               /\ outcome.kind = "obj" =>
                      /\ outcome.obj = parsed
                      /\ NonEmptyLines(min_confidence, content) # {}
                      /\ lineIdx = Earliest(NonEmptyLines(min_confidence, content))
                      /\ lines[lineIdx] = <<outcome.obj>>
               /\ (LastIsResponse /\ outcome = RetNone) =>
                      NonEmptyLines(min_confidence, content) = {}

\* in full-result mode the V2 client parsed a line and returned None because
\* the confidence did not pass the threshold
C9_Witness ==
    /\ is_full_result
    /\ client = "V2"
    /\ Done
    /\ ~interrupted
    /\ parsed = JLow
    /\ min_confidence = 50
    /\ outcome = RetNone

\* C10: for an extension the mapper does not know, the string form is the
\* empty string and the enum form is the unspecified encoding; no error is
\* raised in either form.
C10_UnknownExtension ==
    (fnRes # EncPending /\ Unrecognized(fnArgs.extension)) =>
        fnRes = IF fnArgs.is_string
                THEN EncValue("")
                ELSE EncValue("ENCODING_UNSPECIFIED")

====
